---- MODULE Spec2Model ----
(***************************************************************************)
(* State-machine model of sial-ari/solana-token-sniper.                    *)
(*                                                                         *)
(* The repository holds two programs.                                      *)
(*   prog = "client"  : main (unnamed/part_000:206) wires the websocket    *)
(*                      Client, the sqlite Database and the Jupiter price  *)
(*                      monitor of internal/jupiter/client.go; runs in     *)
(*                      which the monitor's interval does not elapse.      *)
(*   prog = "monitor" : the same program; runs in which the monitor ticks  *)
(*                      and the feed connection, once up, stays up.        *)
(*   prog = "scanner" : cmd/sniper/main.go (internal/database/             *)
(*                      database.go:152) runs the Scanner of               *)
(*                      internal/performance/monitor.go:155.               *)
(*   prog = "ingest"  : two callers run Scanner.processMessage at the same *)
(*                      time (the method takes s.mutex for that purpose).  *)
(* A behaviour is one run of one of them; Init picks which.                *)
(*                                                                         *)
(* Numbers: float64 amounts are modelled by integers and quotients by      *)
(* reduced fractions; a float division by zero yields the IEEE values      *)
(* NaN / +Inf / -Inf, modelled as fractions with the denominator 0.        *)
(*                                                                         *)
(* Time: every reading of time.Now() is later than the readings before it. *)
(* The program only ever orders timestamps (ORDER BY timestamp DESC), so a *)
(* timestamp is kept as its rank: the price history of a mint is the       *)
(* sequence of its points from the oldest to the newest timestamp.         *)
(***************************************************************************)
EXTENDS Integers, Sequences, FiniteSets, TLC

\* ------------------------------------------------------------------ bounds
\* feed messages delivered in one run
MaxMsgs == 2
\* ticks of the price monitor's ticker in one run
MaxTicks == 2
\* Store and quote-service calls that fail in one run
MaxFaults == 1

\* --------------------------------------------------- program constants
\* cfg.QueueSize as handed to jupiter.NewClient
QueueSize == 2
\* Scanner.minMarketCap and Scanner.minLiquidity as handed to NewScanner
MinMarketCap == 10
MinLiquidity == 2
\* isTokenQualified: LiquidityRatio < 0.1, as the fraction RatioNum/RatioDen
RatioNum == 1
RatioDen == 10

\* ------------------------------------------------------------------ values
NoMint == ""
Mints == {"m1", "m2", "m3"}

\* A feed payload: valid = json.Unmarshal succeeds; a JSON object without a
\* "mint" field decodes to the zero values (mint = "").
Payload(v, m, cap, sol, tok, buy) ==
    [valid |-> v, mint |-> m, marketCapSol |-> cap, vSol |-> sol,
     vTokens |-> tok, initialBuy |-> buy]

PGood == Payload(TRUE, "m1", 30, 5, 10, 2)
PLowCap == Payload(TRUE, "m2", 5, 4, 0, 0)
PAck == Payload(TRUE, NoMint, 0, 0, 0, 0)
PMalformed == Payload(FALSE, NoMint, 0, 0, 0, 0)

Payloads == {PGood, PLowCap, PAck, PMalformed}

\* prices the quote service may answer with
QuotePrices == {1, 3}

NoTok == [mint |-> "none"]
NoPL == [initial |-> "none"]

VARIABLES
    prog,          \* which program runs
    msgs,          \* feed messages delivered so far
    faults,        \* Store / quote-service calls that have failed so far
    panicked,      \* the process died of a Go panic
    \* ---- websocket.Client (unnamed/part_000:16)
    wsPc,          \* position of the goroutine that connects / reads / reconnects
    inReconnect,   \* Connect was called by handleDisconnect (else by main)
    readLoops,     \* goroutines inside the for loop of handleMessages
    waiters,       \* goroutines inside handleDisconnect
    conn,          \* c.conn: "nil", or the transport it points to, "open" / "closed"
    isConnected,   \* c.isConnected
    leaked,        \* a transport c.conn no longer points to is still open
    subs,          \* subscribe messages written to the transport c.conn points to
    cMutex,        \* holder of c.mutex: "free", or "connect" (the goroutine in Connect)
    done,          \* c.done is closed
    ctx,           \* main's context is cancelled
    rcTick,        \* handleDisconnect's ticker.C holds a tick
    wsTok,         \* the token processMessage is storing
    closeFrame,    \* a close frame was written to the transport
    \* ---- db.Database (unnamed/part_004)
    tokens,        \* table tokens, in insertion order
    prices,        \* table price_history: per mint, the prices by timestamp
    profit_loss,   \* table profit_loss: its rows
    \* ---- jupiter.Client (internal/jupiter/client.go:16)
    jPc,           \* position of the StartPriceMonitoring goroutine
    jTick,         \* its ticker.C holds a tick
    jDone,         \* its done channel is closed
    jList,         \* tokens of the running updatePrices not yet visited
    jQuote,        \* the quote obtained for the head of jList
    jErr,          \* what updateProfitLoss has just returned to updatePrices
    ticks,         \* ticks delivered so far
    \* ---- scanner.Scanner (internal/performance/monitor.go:155)
    sPc,           \* position of the processLoop goroutine
    sConn,         \* s.conn: "nil", or the transport it points to, "open" / "closed"
    sLeaked,       \* a transport s.conn no longer points to is still open
    sSubs,         \* subscribe messages written to the transport s.conn points to
    sCtx,          \* s.ctx is cancelled
    isRunning,     \* s.isRunning
    reconnectCh,   \* number of values buffered in s.reconnectCh (capacity 1)
    slept,         \* the 5 s of the running time.Sleep have elapsed
    seenTokens,    \* s.seenTokens: the mints seen, each with its TokenMetrics
    sMutex,        \* holder of s.mutex: 0, or the calling context
    pmPc,          \* per calling context: position inside processMessage
    pmMsg,         \* per calling context: the payload it processes
    pmRet,         \* per calling context: what its last processMessage returned
    metricsStore,  \* records written through s.metrics.RecordTokenPrice
    qualified,     \* per mint: calls of isTokenQualified made for it
    stPc           \* position of the running Stop call

clientVars == <<wsPc, inReconnect, readLoops, waiters, conn, isConnected, leaked, subs, cMutex, done, ctx, rcTick,
                wsTok, closeFrame>>
storeVars == <<tokens, prices, profit_loss>>
jupVars == <<jPc, jTick, jDone, jList, jQuote, jErr, ticks>>
scanVars == <<sPc, sConn, sLeaked, sSubs, sCtx, isRunning, reconnectCh, slept, stPc>>
ingestVars == <<seenTokens, sMutex, pmPc, pmMsg, pmRet, metricsStore, qualified>>
vars == <<prog, msgs, faults, panicked, clientVars, storeVars, jupVars,
          scanVars, ingestVars>>

\* ------------------------------------------------------------ arithmetic
Abs(x) == IF x < 0 THEN -x ELSE x

RECURSIVE Gcd(_, _)
Gcd(a, b) == IF b = 0 THEN a ELSE Gcd(b, a % b)

\* the quotient n / d, d # 0, as a reduced fraction with a positive denominator
Rat(n, d) ==
    LET g == Gcd(Abs(n), Abs(d))
        s == IF d < 0 THEN -1 ELSE 1
    IN [n |-> (s * n) \div g, d |-> (s * d) \div g]

\* the IEEE values that are no numbers, as fractions with the denominator 0
NaN == [n |-> 0, d |-> 0]
PosInf == [n |-> 1, d |-> 0]
NegInf == [n |-> -1, d |-> 0]

\* float64 division: x / 0 is NaN, +Inf or -Inf, never a fault
FDiv(n, d) ==
    IF d # 0 THEN Rat(n, d)
    ELSE IF n = 0 THEN NaN ELSE IF n > 0 THEN PosInf ELSE NegInf

\* --------------------------------------------------------------- Database
Reverse(s) == [i \in 1..Len(s) |-> s[Len(s) + 1 - i]]

\* variant: the points of m, the oldest first
PriceHistoryOldestFirst(m) == prices[m]

\* SELECT price, timestamp FROM price_history WHERE mint = ?
\* ORDER BY timestamp DESC: the points of m, the newest first
GetPriceHistory(m) == Reverse(prices[m])

\* INSERT INTO price_history of a point whose timestamp is later than
\* exactly `older` of the points m has
InsertPrice(m, price, older) ==
    [prices EXCEPT ![m] = SubSeq(@, 1, older) \o <<[mint |-> m, price |-> price]>>
                          \o SubSeq(@, older + 1, Len(@))]

\* PRIMARY KEY (mint) of tokens
TokenKeyFree(m) == \A i \in 1..Len(tokens) : tokens[i].mint # m

\* SELECT ... FROM tokens ORDER BY created_at DESC LIMIT ?
\* (tokens is kept in insertion order, which is the created_at order)
RECURSIVE Newest(_, _)
Newest(s, n) ==
    IF n = 0 \/ s = << >> THEN << >>
    ELSE <<s[Len(s)]>> \o Newest(SubSeq(s, 1, Len(s) - 1), n - 1)

\* variant: the query without its LIMIT
AllTokensNewestFirst(n) == Newest(tokens, Len(tokens))

GetTokensInQueue(n) == Newest(tokens, n)

\* a row of profit_loss (last_updated is never read and is left out)
PLRow(m, rec) ==
    [mint |-> m, initial |-> rec.initial, current |-> rec.current,
     delta |-> rec.delta, pct |-> rec.pct]

\* variant: a plain INSERT into a table that has no key
InsertProfitLoss(m, rec) == profit_loss \cup {PLRow(m, rec)}

\* UpdateProfitLoss: INSERT OR REPLACE INTO profit_loss, PRIMARY KEY (mint):
\* the row that has the key is deleted, then the new row is inserted
UpdateProfitLoss(m, rec) ==
    {r \in profit_loss : r.mint # m} \cup {PLRow(m, rec)}

\* profit_loss read by key: the record of each mint, NoPL if it has no row
pl ==
    [m \in Mints \cup {NoMint} |->
        IF \E r \in profit_loss : r.mint = m
        THEN LET r == CHOOSE x \in profit_loss : x.mint = m
             IN [initial |-> r.initial, current |-> r.current,
                 delta |-> r.delta, pct |-> r.pct]
        ELSE NoPL]


\* ======================================================= websocket.Client
\* a call of the Store or of the quote service fails (fail) or not
MayFail(fail) == fail => faults < MaxFaults
CountFault(fail) == IF fail THEN faults + 1 ELSE faults

\* variable groups, for the UNCHANGED clauses
topVars == <<prog, panicked>>
envVars == <<msgs, faults>>
wsConnVars == <<conn, isConnected, leaked, subs, cMutex>>
wsSigVars == <<done, ctx, closeFrame>>
jupRunVars == <<jTick, jList, jQuote, jErr, ticks>>

\* main's program runs (either kind of run)
InMain == prog \in {"client", "monitor"}

\* the caller of Connect gets an error: handleDisconnect logs it and waits
\* for the next tick (continue); main calls log.Fatalf
\* variant: a failed attempt ends the reconnect loop
GiveUpAfterConnectError == "fatal"

\* where a failed Connect leads: main's first call is fatal (log.Fatalf),
\* handleDisconnect logs and continues its loop
AfterConnectError == IF inReconnect THEN "wait" ELSE "fatal"

\* Connect: dialer.DialContext succeeds (it fails on a cancelled context)
WsDialOk ==
    /\ InMain /\ wsPc = "dial" /\ ~ctx
    /\ wsPc' = "set"
    /\ UNCHANGED <<topVars, envVars, inReconnect, readLoops, waiters, wsConnVars, wsSigVars, rcTick,
                   wsTok, storeVars, jupVars, scanVars, ingestVars>>

\* variant: the handle and the flag are set before the error is looked at
WsDialFailStoresConn ==
    /\ InMain /\ wsPc = "dial"
    /\ conn' = "nil"
    /\ isConnected' = TRUE
    /\ wsPc' = AfterConnectError
    /\ UNCHANGED <<topVars, envVars, inReconnect, readLoops, waiters, leaked, subs, cMutex, wsSigVars,
                   rcTick, wsTok, storeVars, jupVars, scanVars, ingestVars>>

\* Connect: dialer.DialContext fails, Connect returns the error
WsDialFail ==
    /\ InMain /\ wsPc = "dial"
    /\ wsPc' = AfterConnectError
    /\ UNCHANGED <<topVars, envVars, inReconnect, readLoops, waiters, wsConnVars, wsSigVars, rcTick,
                   wsTok, storeVars, jupVars, scanVars, ingestVars>>

\* c.mutex.Lock() goes through when nobody holds the mutex
CMutexFree == cMutex = "free"

\* Connect: c.mutex.Lock(); c.conn = conn; c.isConnected = true;
\* c.mutex.Unlock().  Nothing was written to the new transport yet.
WsSet ==
    /\ InMain /\ wsPc = "set" /\ CMutexFree
    /\ conn' = "open"
    /\ isConnected' = TRUE
    /\ leaked' = (leaked \/ conn = "open")
    /\ subs' = 0
    /\ wsPc' = "sub"
    /\ UNCHANGED <<topVars, envVars, inReconnect, readLoops, waiters, cMutex, wsSigVars, rcTick, wsTok,
                   storeVars, jupVars, scanVars, ingestVars>>

\* subscribeToTokenCreation: c.mutex.Lock(); defer c.mutex.Unlock()
WsSubLock ==
    /\ InMain /\ wsPc = "sub" /\ CMutexFree
    /\ cMutex' = "connect"
    /\ wsPc' = "subWrite"
    /\ UNCHANGED <<topVars, envVars, inReconnect, readLoops, waiters, conn, isConnected, leaked, subs,
                   wsSigVars, rcTick, wsTok, storeVars, jupVars, scanVars,
                   ingestVars>>

\* subscribeToTokenCreation: c.conn.WriteMessage succeeds (the mutex is
\* released on return); Connect goes on to go c.handleMessages(ctx) and
\* returns nil.  main then starts the price monitor goroutine.
WsSubOk ==
    /\ InMain /\ wsPc = "subWrite" /\ conn = "open"
    /\ subs' = subs + 1
    /\ cMutex' = "free"
    /\ wsPc' = "select"
    /\ readLoops' = readLoops + 1
    /\ waiters' = IF inReconnect THEN waiters - 1 ELSE waiters
    /\ inReconnect' = FALSE
    /\ jPc' = IF inReconnect THEN jPc ELSE "select"
    /\ UNCHANGED <<topVars, envVars, conn, isConnected, leaked, wsSigVars, rcTick,
                   wsTok, storeVars, jDone, jupRunVars, scanVars, ingestVars>>

\* variant: the error of the subscribe write is dropped and the read loop
\* is started
WsSubErrorIgnored ==
    /\ InMain /\ wsPc = "subWrite"
    /\ cMutex' = "free"
    /\ wsPc' = "select"
    /\ readLoops' = readLoops + 1
    /\ UNCHANGED <<topVars, envVars, inReconnect, waiters, conn, isConnected, leaked, subs,
                   wsSigVars, rcTick, wsTok, storeVars, jupVars, scanVars,
                   ingestVars>>

\* subscribeToTokenCreation: c.conn.WriteMessage fails (the mutex is released
\* on return), Connect returns the error; c.conn and c.isConnected stay as
\* WsSet left them
WsSubFail ==
    /\ InMain /\ wsPc = "subWrite"
    /\ cMutex' = "free"
    /\ wsPc' = AfterConnectError
    /\ UNCHANGED <<topVars, envVars, inReconnect, readLoops, waiters, conn, isConnected, leaked, subs,
                   wsSigVars, rcTick, wsTok, storeVars, jupVars, scanVars,
                   ingestVars>>

\* handleMessages: select { <-ctx.Done(); <-c.done; default }
WsSelect ==
    /\ InMain /\ wsPc = "select"
    /\ wsPc' = IF ctx \/ done THEN "dead" ELSE "read"
    /\ readLoops' = IF ctx \/ done THEN readLoops - 1 ELSE readLoops
    /\ UNCHANGED <<topVars, envVars, inReconnect, waiters, wsConnVars, wsSigVars, rcTick,
                   wsTok, storeVars, jupVars, scanVars, ingestVars>>

\* variant: an error of processMessage ends the read loop
ReturnAfterProcessError == "dead"

\* handleMessages: an error of processMessage is logged, then `continue`
AfterProcessError == "select"

\* handleMessages: c.conn.ReadMessage returns a message; processMessage
\* decodes it (an undecodable one is returned as an error, which
\* handleMessages logs before it continues its loop) and stamps
\* token.CreatedAt = time.Now(), later than the points stored so far
WsReadMsg(p) ==
    /\ InMain /\ wsPc = "read" /\ conn = "open" /\ msgs < MaxMsgs
    /\ msgs' = msgs + 1
    /\ IF p.valid
       THEN /\ wsTok' = [p |-> p, createdAt |-> Len(prices[p.mint])]
            /\ wsPc' = "saveToken"
       ELSE /\ wsPc' = AfterProcessError
            /\ UNCHANGED wsTok
    /\ UNCHANGED <<topVars, faults, inReconnect, readLoops, waiters, wsConnVars, wsSigVars, rcTick, storeVars,
                   jupVars, scanVars, ingestVars>>

\* variant: after handleDisconnect the loop goes on (continue)
LoopsIfContinueAfterReadError == readLoops

\* handleMessages: after a read error the goroutine calls handleDisconnect
\* and then returns, it never comes back to its for loop
LoopsAfterReadError == readLoops - 1

\* handleMessages: c.conn.ReadMessage returns an error (the peer or the
\* network ended the transport); handleDisconnect is called
WsReadErr ==
    /\ prog = "client" /\ wsPc = "read"
    /\ wsPc' = "hd"
    /\ readLoops' = LoopsAfterReadError
    /\ waiters' = waiters + 1
    /\ UNCHANGED <<topVars, envVars, inReconnect, wsConnVars, wsSigVars, rcTick,
                   wsTok, storeVars, jupVars, scanVars, ingestVars>>

\* processMessage returns the error of a failed Store call as it stands and
\* nil after the third write; handleMessages logs an error and continues.

\* variant: the error of SaveNewToken is not returned, processing goes on
WsSaveTokenErrorIgnored(fail) ==
    /\ InMain /\ wsPc = "saveToken"
    /\ MayFail(fail) /\ faults' = CountFault(fail)
    /\ tokens' = IF ~fail /\ TokenKeyFree(wsTok.p.mint)
                 THEN Append(tokens, [mint |-> wsTok.p.mint,
                                      marketCapSol |-> wsTok.p.marketCapSol,
                                      initialBuy |-> wsTok.p.initialBuy])
                 ELSE tokens
    /\ wsPc' = "savePrice"
    /\ UNCHANGED <<topVars, msgs, inReconnect, readLoops, waiters, wsConnVars, wsSigVars, rcTick,
                   wsTok, prices, profit_loss, jupVars, scanVars, ingestVars>>

\* processMessage: c.db.SaveNewToken(&token).  The row's created_at is the
\* time of the insert, so the rows are in created_at order as they stand.
WsSaveToken(fail) ==
    /\ InMain /\ wsPc = "saveToken"
    /\ MayFail(fail) /\ faults' = CountFault(fail)
    /\ IF ~fail /\ TokenKeyFree(wsTok.p.mint)
       THEN /\ tokens' = Append(tokens, [mint |-> wsTok.p.mint,
                                         marketCapSol |-> wsTok.p.marketCapSol,
                                         initialBuy |-> wsTok.p.initialBuy])
            /\ wsPc' = "savePrice"
            /\ UNCHANGED wsTok
       ELSE /\ wsPc' = AfterProcessError
            /\ wsTok' = NoTok
            /\ UNCHANGED tokens
    /\ UNCHANGED <<topVars, msgs, inReconnect, readLoops, waiters, wsConnVars, wsSigVars, rcTick,
                   prices, profit_loss, jupVars, scanVars, ingestVars>>

\* variant: a failed SaveTokenPrice takes the token record back
WsSavePriceRollsBack(fail) ==
    /\ InMain /\ wsPc = "savePrice"
    /\ MayFail(fail) /\ faults' = CountFault(fail)
    /\ IF ~fail
       THEN /\ prices' = InsertPrice(wsTok.p.mint, wsTok.p.initialBuy,
                                     wsTok.createdAt)
            /\ wsPc' = "savePL"
            /\ UNCHANGED <<wsTok, tokens>>
       ELSE /\ wsPc' = AfterProcessError
            /\ wsTok' = NoTok
            /\ tokens' = SelectSeq(tokens, LAMBDA t : t.mint # wsTok.p.mint)
            /\ UNCHANGED prices
    /\ UNCHANGED <<topVars, msgs, inReconnect, readLoops, waiters, wsConnVars, wsSigVars, rcTick,
                   profit_loss, jupVars, scanVars, ingestVars>>

\* processMessage: c.db.SaveTokenPrice(initialPrice), Timestamp token.CreatedAt
WsSavePrice(fail) ==
    /\ InMain /\ wsPc = "savePrice"
    /\ MayFail(fail) /\ faults' = CountFault(fail)
    /\ IF ~fail
       THEN /\ prices' = InsertPrice(wsTok.p.mint, wsTok.p.initialBuy,
                                     wsTok.createdAt)
            /\ wsPc' = "savePL"
            /\ UNCHANGED wsTok
       ELSE /\ wsPc' = AfterProcessError
            /\ wsTok' = NoTok
            /\ UNCHANGED prices
    /\ UNCHANGED <<topVars, msgs, inReconnect, readLoops, waiters, wsConnVars, wsSigVars, rcTick,
                   tokens, profit_loss, jupVars, scanVars, ingestVars>>

\* processMessage: c.db.UpdateProfitLoss(profitLoss), INSERT OR REPLACE
WsSavePL(fail) ==
    /\ InMain /\ wsPc = "savePL"
    /\ MayFail(fail) /\ faults' = CountFault(fail)
    /\ IF ~fail
       THEN profit_loss' = UpdateProfitLoss(wsTok.p.mint,
                               [initial |-> wsTok.p.initialBuy,
                                current |-> wsTok.p.initialBuy,
                                delta |-> 0, pct |-> Rat(0, 1)])
       ELSE UNCHANGED profit_loss
    /\ wsPc' = IF fail THEN AfterProcessError ELSE "select"
    /\ wsTok' = NoTok
    /\ UNCHANGED <<topVars, msgs, inReconnect, readLoops, waiters, wsConnVars, wsSigVars, rcTick,
                   tokens, prices, jupVars, scanVars, ingestVars>>

\* handleDisconnect: c.conn.Close(); c.isConnected = false (under c.mutex);
\* ticker := time.NewTicker(c.reconnectWait)
WsDisconnect ==
    /\ InMain /\ wsPc = "hd" /\ CMutexFree
    /\ conn' = IF conn = "nil" THEN "nil" ELSE "closed"
    /\ isConnected' = FALSE
    /\ rcTick' = FALSE
    /\ wsPc' = "wait"
    /\ inReconnect' = TRUE
    /\ UNCHANGED <<topVars, envVars, readLoops, waiters, leaked, subs, cMutex, wsSigVars, wsTok,
                   storeVars, jupVars, scanVars, ingestVars>>

\* the runtime delivers a tick of handleDisconnect's ticker (every
\* c.reconnectWait; ticker.C buffers one tick)
WsTickerFire ==
    /\ InMain /\ inReconnect /\ wsPc \in {"wait", "dial", "set", "sub", "subWrite"}
    /\ ~rcTick
    /\ rcTick' = TRUE
    /\ UNCHANGED <<topVars, envVars, wsPc, inReconnect, readLoops, waiters, wsConnVars, wsSigVars,
                   wsTok, storeVars, jupVars, scanVars, ingestVars>>

\* handleDisconnect: select takes <-ctx.Done() or <-c.done and returns
WsWaitExit ==
    /\ InMain /\ wsPc = "wait"
    /\ ctx \/ done
    /\ wsPc' = "dead"
    /\ waiters' = waiters - 1
    /\ inReconnect' = FALSE
    /\ UNCHANGED <<topVars, envVars, readLoops, wsConnVars, wsSigVars, rcTick, wsTok,
                   storeVars, jupVars, scanVars, ingestVars>>

\* handleDisconnect: select takes <-ticker.C and calls c.Connect(ctx).  When
\* several cases are ready Go picks one of them at random.
WsWaitTick ==
    /\ InMain /\ wsPc = "wait"
    /\ rcTick
    /\ rcTick' = FALSE
    /\ wsPc' = "dial"
    /\ UNCHANGED <<topVars, envVars, inReconnect, readLoops, waiters, wsConnVars, wsSigVars, wsTok,
                   storeVars, jupVars, scanVars, ingestVars>>

\* main has passed its Connect call and waits for the signal
Started == InMain /\ jPc # "off"

\* the owner calls Client.Close: close(c.done) panics on a closed channel;
\* then, if c.conn != nil, the close frame is written (the write fails on a
\* closed transport and may fail on an open one).  All under c.mutex.
WsClose(writeFails) ==
    /\ Started /\ prog = "client" /\ CMutexFree
    /\ IF done
       THEN /\ panicked' = TRUE
            /\ UNCHANGED <<done, closeFrame>>
       ELSE /\ done' = TRUE
            /\ closeFrame' = (closeFrame \/ (conn = "open" /\ ~writeFails))
            /\ UNCHANGED panicked
    /\ UNCHANGED <<prog, envVars, wsPc, inReconnect, readLoops, waiters, wsConnVars, ctx, rcTick,
                   wsTok, storeVars, jupVars, scanVars, ingestVars>>

\* the owner cancels the context handed to Connect and StartPriceMonitoring
CtxCancel ==
    /\ Started /\ ~ctx
    /\ ctx' = TRUE
    /\ UNCHANGED <<topVars, envVars, wsPc, inReconnect, readLoops, waiters, wsConnVars, done,
                   closeFrame, rcTick, wsTok, storeVars, jupVars,
                   scanVars, ingestVars>>

\* ========================================================= jupiter.Client
\* the runtime delivers a tick of StartPriceMonitoring's ticker
JTickerFire ==
    /\ prog = "monitor" /\ jPc \notin {"off", "dead"}
    /\ ~jTick /\ ticks < MaxTicks
    /\ jTick' = TRUE
    /\ ticks' = ticks + 1
    /\ UNCHANGED <<topVars, envVars, clientVars, storeVars, jPc, jDone,
                   jList, jQuote, jErr, scanVars, ingestVars>>

\* StartPriceMonitoring: select takes <-ctx.Done() or <-c.done and returns
JSelectExit ==
    /\ InMain /\ jPc = "select"
    /\ ctx \/ jDone
    /\ jPc' = "dead"
    /\ UNCHANGED <<topVars, envVars, clientVars, storeVars, jDone,
                   jupRunVars, scanVars, ingestVars>>

\* variant: a tick starts updatePrices although a run is in progress
JTickPreempts(fail) ==
    /\ InMain /\ jPc \in {"select", "token", "save", "pl"}
    /\ MayFail(fail) /\ faults' = CountFault(fail)
    /\ jTick
    /\ jTick' = FALSE
    /\ IF fail
       THEN UNCHANGED <<jPc, jList>>
       ELSE /\ jPc' = "token"
            /\ jList' = GetTokensInQueue(QueueSize)
    /\ UNCHANGED <<topVars, msgs, clientVars, storeVars, jDone, jQuote, jErr,
                   ticks, scanVars, ingestVars>>

\* StartPriceMonitoring: select takes <-ticker.C; updatePrices starts with
\* c.db.GetTokensInQueue(c.queueSize), whose error ends the run
JSelectTick(fail) ==
    /\ InMain /\ jPc = "select"
    /\ MayFail(fail) /\ faults' = CountFault(fail)
    /\ jTick
    /\ jTick' = FALSE
    /\ IF fail
       THEN UNCHANGED <<jPc, jList>>
       ELSE /\ jPc' = "token"
            /\ jList' = GetTokensInQueue(QueueSize)
    /\ UNCHANGED <<topVars, msgs, clientVars, storeVars, jDone, jQuote, jErr,
                   ticks, scanVars, ingestVars>>

\* updatePrices: the range loop is over, return nil
JListEnd ==
    /\ InMain /\ jPc = "token" /\ jList = << >>
    /\ jPc' = "select"
    /\ jErr' = "none"
    /\ UNCHANGED <<topVars, envVars, clientVars, storeVars, jDone, jTick, jList,
                   jQuote, ticks, scanVars, ingestVars>>

\* updatePrices: select { case <-ctx.Done(): return nil; default: }
ShutdownSeenInTick == ctx

\* variant: a failed quote ends the tick
AbortList(list) == << >>

\* updatePrices: `continue` after a failed step of one token: the range
\* loop goes on with the tokens after it
RestAfterSkip(list) == Tail(list)

\* updatePrices, next token: the shutdown check, then c.getQuote; a failed
\* quote is logged and the loop continues with the next token
JToken ==
    /\ InMain /\ jPc = "token" /\ jList # << >>
    /\ jErr' = "none"
    /\ IF ShutdownSeenInTick
       THEN /\ jPc' = "select"
            /\ jList' = << >>
            /\ UNCHANGED <<jQuote, faults>>
       ELSE \/ \E q \in QuotePrices :
                 /\ jQuote' = q
                 /\ jPc' = "save"
                 /\ UNCHANGED <<jList, faults>>
            \/ /\ faults < MaxFaults
               /\ faults' = faults + 1
               /\ jList' = RestAfterSkip(jList)
               /\ UNCHANGED <<jPc, jQuote>>
    /\ UNCHANGED <<topVars, msgs, clientVars, storeVars, jDone, jTick, ticks,
                   scanVars, ingestVars>>

\* variant: the error of SaveTokenPrice is logged and the recompute runs
JSavePriceErrorIgnored(fail) ==
    /\ InMain /\ jPc = "save"
    /\ MayFail(fail) /\ faults' = CountFault(fail)
    /\ prices' = IF fail THEN prices
                 ELSE InsertPrice(Head(jList).mint, jQuote,
                                  Len(prices[Head(jList).mint]))
    /\ jPc' = "pl"
    /\ UNCHANGED <<topVars, msgs, clientVars, tokens, profit_loss, jDone, jTick,
                   jList, jQuote, jErr, ticks, scanVars, ingestVars>>

\* updatePrices: c.db.SaveTokenPrice(pricePoint) with Timestamp time.Now();
\* on an error the loop continues with the next token
JSavePrice(fail) ==
    /\ InMain /\ jPc = "save"
    /\ MayFail(fail) /\ faults' = CountFault(fail)
    /\ IF ~fail
       THEN /\ prices' = InsertPrice(Head(jList).mint, jQuote,
                                     Len(prices[Head(jList).mint]))
            /\ jPc' = "pl"
            /\ UNCHANGED <<jList, jQuote>>
       ELSE /\ jPc' = "token"
            /\ jList' = Tail(jList)
            /\ jQuote' = 0
            /\ UNCHANGED prices
    /\ UNCHANGED <<topVars, msgs, clientVars, tokens, profit_loss, jDone, jTick,
                   jErr, ticks, scanVars, ingestVars>>

\* updateProfitLoss: the record computed from a history (newest first)
ProfitLossOf(h) ==
    LET initialPrice == h[Len(h)].price
        currentPrice == h[1].price
        profitLoss == currentPrice - initialPrice
    IN [initial |-> initialPrice, current |-> currentPrice,
        delta |-> profitLoss, pct |-> FDiv(profitLoss * 100, initialPrice)]

\* variant: every history is long enough
AnyHistoryEnough(h) == FALSE

\* updateProfitLoss: len(prices) < 2
TooShort(h) == Len(h) < 2

\* updatePrices: c.updateProfitLoss(ctx, token.Mint): an error of
\* GetPriceHistory or a history of fewer than 2 points returns an error,
\* else the record is written with UpdateProfitLoss (which may fail); in
\* every case the loop goes on with the next token
JUpdatePL(readFails, writeFails) ==
    /\ InMain /\ jPc = "pl"
    /\ ~(readFails /\ writeFails)
    /\ MayFail(readFails \/ writeFails)
    /\ faults' = CountFault(readFails \/ writeFails)
    /\ LET m == Head(jList).mint
           h == GetPriceHistory(m)
       IN IF readFails \/ TooShort(h) \/ writeFails
          THEN /\ jErr' = "error"
               /\ UNCHANGED profit_loss
          ELSE /\ jErr' = "nil"
               /\ profit_loss' = UpdateProfitLoss(m, ProfitLossOf(h))
    /\ jPc' = "token"
    /\ jList' = Tail(jList)
    /\ jQuote' = 0
    /\ UNCHANGED <<topVars, msgs, clientVars, tokens, prices, jDone,
                   jTick, ticks, scanVars, ingestVars>>

\* the owner calls jupiter Client.Close: close(c.done) panics on a closed
\* channel
JClose ==
    /\ Started
    /\ IF jDone
       THEN /\ panicked' = TRUE
            /\ UNCHANGED jDone
       ELSE /\ jDone' = TRUE
            /\ UNCHANGED panicked
    /\ UNCHANGED <<prog, envVars, clientVars, storeVars, jPc, jupRunVars,
                   scanVars, ingestVars>>

\* ======================================================= scanner.Scanner
\* the contexts that call processMessage: 1 is the processLoop goroutine
Ctxs == {1, 2}

InScanner == prog \in {"scanner", "ingest"}

\* variant: the price is divided without the guard
UnguardedPrice(p) ==
    [TokenPrice |-> FDiv(p.vSol, p.vTokens),
     LiquidityRatio |-> IF p.marketCapSol > 0 THEN Rat(p.vSol, p.marketCapSol)
                        ELSE Rat(0, 1),
     MarketDepth |-> p.vSol * p.vTokens]

\* variant: the ratio is divided without the guard
UnguardedRatio(p) ==
    [TokenPrice |-> IF p.vTokens > 0 THEN Rat(p.vSol, p.vTokens) ELSE Rat(0, 1),
     LiquidityRatio |-> FDiv(p.vSol, p.marketCapSol),
     MarketDepth |-> p.vSol * p.vTokens]

\* calculateTokenMetrics (CreationTime is never read again and is left out)
calculateTokenMetrics(p) ==
    [TokenPrice |-> IF p.vTokens > 0 THEN Rat(p.vSol, p.vTokens) ELSE Rat(0, 1),
     LiquidityRatio |-> IF p.marketCapSol > 0 THEN Rat(p.vSol, p.marketCapSol)
                        ELSE Rat(0, 1),
     MarketDepth |-> p.vSol * p.vTokens]

\* variant: the filter without the liquidity-ratio check
QualifiedWithoutRatio(p, metrics) ==
    IF p.marketCapSol < MinMarketCap THEN FALSE
    ELSE IF p.vSol < MinLiquidity THEN FALSE
    ELSE TRUE

\* isTokenQualified
isTokenQualified(p, metrics) ==
    IF p.marketCapSol < MinMarketCap THEN FALSE
    ELSE IF p.vSol < MinLiquidity THEN FALSE
    ELSE IF metrics.LiquidityRatio.n * RatioDen < RatioNum * metrics.LiquidityRatio.d
         THEN FALSE
    ELSE TRUE

\* variant: a lock that excludes nobody
LockNeverBlocks == TRUE

\* s.mutex.Lock() goes through when nobody holds the mutex
MutexFree == sMutex = 0

\* processMessage returns to its caller: handleMessages continues its loop
\* (an error is logged first)
PmReturn(c, err) ==
    /\ pmPc' = [pmPc EXCEPT ![c] = "idle"]
    /\ pmMsg' = [pmMsg EXCEPT ![c] = PMalformed]
    /\ pmRet' = [pmRet EXCEPT ![c] = IF err THEN "error" ELSE "nil"]
    /\ sPc' = IF prog = "scanner" THEN "hmSelect" ELSE sPc

\* a caller other than the read loop invokes processMessage(message);
\* json.Unmarshal fails on an undecodable message, the error is returned
PmCall(c, p) ==
    /\ prog = "ingest" /\ pmPc[c] = "idle" /\ msgs < MaxMsgs
    /\ msgs' = msgs + 1
    /\ IF p.valid
       THEN /\ pmPc' = [pmPc EXCEPT ![c] = "lock"]
            /\ pmMsg' = [pmMsg EXCEPT ![c] = p]
            /\ pmRet' = [pmRet EXCEPT ![c] = "none"]
       ELSE /\ pmRet' = [pmRet EXCEPT ![c] = "error"]
            /\ UNCHANGED <<pmPc, pmMsg>>
    /\ UNCHANGED <<topVars, faults, clientVars, storeVars, jupVars, scanVars,
                   seenTokens, sMutex, metricsStore, qualified>>

\* processMessage: s.mutex.Lock()
PmLock(c) ==
    /\ InScanner /\ pmPc[c] = "lock"
    /\ MutexFree
    /\ sMutex' = c
    /\ pmPc' = [pmPc EXCEPT ![c] = "check"]
    /\ UNCHANGED <<topVars, envVars, clientVars, storeVars, jupVars, scanVars,
                   seenTokens, pmMsg, pmRet, metricsStore, qualified>>

\* variant: the lookup in s.seenTokens is skipped, every message goes on
PmCheckAlwaysProceeds(c) ==
    /\ InScanner /\ pmPc[c] = "check"
    /\ pmPc' = [pmPc EXCEPT ![c] = "insert"]
    /\ UNCHANGED <<topVars, envVars, clientVars, storeVars, jupVars, scanVars,
                   seenTokens, sMutex, pmMsg, pmRet, metricsStore, qualified>>

\* processMessage: if _, exists := s.seenTokens[token.Mint]; exists
\* { s.mutex.Unlock(); return nil }
PmCheck(c) ==
    /\ InScanner /\ pmPc[c] = "check"
    /\ IF pmMsg[c].mint \in DOMAIN seenTokens
       THEN /\ sMutex' = 0
            /\ PmReturn(c, FALSE)
       ELSE /\ pmPc' = [pmPc EXCEPT ![c] = "insert"]
            /\ UNCHANGED <<sMutex, pmMsg, pmRet, sPc>>
    /\ UNCHANGED <<topVars, envVars, clientVars, storeVars, jupVars, sConn, sLeaked, sSubs,
                   sCtx, isRunning, reconnectCh, slept, stPc, seenTokens,
                   metricsStore, qualified>>

\* processMessage: metrics := s.calculateTokenMetrics(&token);
\* s.seenTokens[token.Mint] = metrics; s.mutex.Unlock()
PmInsert(c) ==
    /\ InScanner /\ pmPc[c] = "insert"
    /\ seenTokens' = (pmMsg[c].mint :> calculateTokenMetrics(pmMsg[c])) @@ seenTokens
    /\ sMutex' = 0
    /\ pmPc' = [pmPc EXCEPT ![c] = "qualify"]
    /\ UNCHANGED <<topVars, envVars, clientVars, storeVars, jupVars, scanVars,
                   pmMsg, pmRet, metricsStore, qualified>>

\* processMessage: if !s.isTokenQualified(&token, metrics) { log; return nil }
PmQualify(c) ==
    /\ InScanner /\ pmPc[c] = "qualify"
    /\ qualified' = [qualified EXCEPT ![pmMsg[c].mint] = @ + 1]
    /\ IF isTokenQualified(pmMsg[c], calculateTokenMetrics(pmMsg[c]))
       THEN /\ pmPc' = [pmPc EXCEPT ![c] = "record"]
            /\ UNCHANGED <<pmMsg, pmRet, sPc>>
       ELSE PmReturn(c, FALSE)
    /\ UNCHANGED <<topVars, envVars, clientVars, storeVars, jupVars, sConn, sLeaked, sSubs,
                   sCtx, isRunning, reconnectCh, slept, stPc, seenTokens, sMutex,
                   metricsStore>>

\* s.metrics.RecordTokenPrice: the Store write of this program
RecordTokenPrice(p) ==
    Append(metricsStore, [mint |-> p.mint,
                          price |-> calculateTokenMetrics(p).TokenPrice,
                          marketCapSol |-> p.marketCapSol])

\* processMessage: err := s.metrics.RecordTokenPrice(...); the error is
\* returned wrapped, else nil
PmRecord(c, fail) ==
    /\ InScanner /\ pmPc[c] = "record"
    /\ MayFail(fail) /\ faults' = CountFault(fail)
    /\ metricsStore' = IF fail THEN metricsStore ELSE RecordTokenPrice(pmMsg[c])
    /\ PmReturn(c, fail)
    /\ UNCHANGED <<topVars, msgs, clientVars, storeVars, jupVars, sConn, sLeaked, sSubs,
                   sCtx, isRunning, reconnectCh, slept, stPc, seenTokens, sMutex,
                   qualified>>

\* Start: s.isRunning = true (under s.mutex); go s.processLoop()
ScStart ==
    /\ prog = "scanner" /\ sPc = "idle" /\ MutexFree
    /\ isRunning' = TRUE
    /\ sPc' = "top"
    /\ UNCHANGED <<topVars, envVars, clientVars, storeVars, jupVars, sConn, sLeaked, sSubs,
                   sCtx, reconnectCh, slept, stPc, ingestVars>>

\* processLoop: select { case <-s.ctx.Done(): return; default: s.connect() }
ScTop ==
    /\ prog = "scanner" /\ sPc = "top"
    /\ sPc' = IF sCtx THEN "dead" ELSE "dial"
    /\ UNCHANGED <<topVars, envVars, clientVars, storeVars, jupVars, sConn, sLeaked, sSubs,
                   sCtx, isRunning, reconnectCh, slept, stPc, ingestVars>>

\* connect: websocket.DefaultDialer.Dial succeeds; s.conn = conn
ScDialOk ==
    /\ prog = "scanner" /\ sPc = "dial"
    /\ sConn' = "open"
    /\ sLeaked' = (sLeaked \/ sConn = "open")
    /\ sSubs' = 0
    /\ sPc' = "sub"
    /\ UNCHANGED <<topVars, envVars, clientVars, storeVars, jupVars, sCtx, isRunning,
                   reconnectCh, slept, stPc, ingestVars>>

\* connect: Dial fails; processLoop logs and calls scheduleReconnect
ScDialFail ==
    /\ prog = "scanner" /\ sPc = "dial"
    /\ sPc' = "sched"
    /\ UNCHANGED <<topVars, envVars, clientVars, storeVars, jupVars, sConn, sLeaked, sSubs,
                   sCtx, isRunning, reconnectCh, slept, stPc, ingestVars>>

\* connect: subscribe succeeds; processLoop calls handleMessages
ScSubOk ==
    /\ prog = "scanner" /\ sPc = "sub" /\ sConn = "open"
    /\ sSubs' = sSubs + 1
    /\ sPc' = "hmSelect"
    /\ UNCHANGED <<topVars, envVars, clientVars, storeVars, jupVars, sConn, sLeaked,
                   sCtx, isRunning, reconnectCh, slept, stPc, ingestVars>>

\* connect: s.conn.WriteMessage fails in subscribe; conn.Close(); the error
\* goes to processLoop, which calls scheduleReconnect
ScSubFail ==
    /\ prog = "scanner" /\ sPc = "sub"
    /\ sConn' = "closed"
    /\ sPc' = "sched"
    /\ UNCHANGED <<topVars, envVars, clientVars, storeVars, jupVars, sLeaked, sSubs, sCtx,
                   isRunning, reconnectCh, slept, stPc, ingestVars>>

\* handleMessages: select { case <-s.ctx.Done(): return; default: }
ScHmSelect ==
    /\ prog = "scanner" /\ sPc = "hmSelect"
    /\ sPc' = IF sCtx THEN "top" ELSE "read"
    /\ UNCHANGED <<topVars, envVars, clientVars, storeVars, jupVars, sConn, sLeaked, sSubs,
                   sCtx, isRunning, reconnectCh, slept, stPc, ingestVars>>

\* handleMessages: s.conn.ReadMessage returns a message, processMessage is
\* called with it (json.Unmarshal fails on an undecodable one: the error is
\* returned and logged, the loop continues)
ScReadMsg(p) ==
    /\ prog = "scanner" /\ sPc = "read" /\ sConn = "open" /\ msgs < MaxMsgs
    /\ msgs' = msgs + 1
    /\ IF p.valid
       THEN /\ pmPc' = [pmPc EXCEPT ![1] = "lock"]
            /\ pmMsg' = [pmMsg EXCEPT ![1] = p]
            /\ pmRet' = [pmRet EXCEPT ![1] = "none"]
            /\ sPc' = "proc"
       ELSE /\ sPc' = "hmSelect"
            /\ pmRet' = [pmRet EXCEPT ![1] = "error"]
            /\ UNCHANGED <<pmPc, pmMsg>>
    /\ UNCHANGED <<topVars, faults, clientVars, storeVars, jupVars, sConn, sLeaked, sSubs,
                   sCtx, isRunning, reconnectCh, slept, stPc, seenTokens, sMutex,
                   metricsStore, qualified>>

\* handleMessages: s.conn.ReadMessage returns an error (the peer or the
\* network ended the transport, or Stop closed it); scheduleReconnect is
\* called, then handleMessages returns
ScReadErr ==
    /\ prog = "scanner" /\ sPc = "read"
    /\ sPc' = "sched"
    /\ UNCHANGED <<topVars, envVars, clientVars, storeVars, jupVars, sConn, sLeaked, sSubs,
                   sCtx, isRunning, reconnectCh, slept, stPc, ingestVars>>

\* scheduleReconnect: select { case s.reconnectCh <- struct{}{}:
\* time.Sleep(5 * time.Second); default: }.  Nothing ever receives from
\* s.reconnectCh (capacity 1).
ScSchedule ==
    /\ prog = "scanner" /\ sPc = "sched"
    /\ IF reconnectCh < 1
       THEN /\ reconnectCh' = reconnectCh + 1
            /\ slept' = FALSE
            /\ sPc' = "sleep"
       ELSE /\ sPc' = "top"
            /\ UNCHANGED <<reconnectCh, slept>>
    /\ UNCHANGED <<topVars, envVars, clientVars, storeVars, jupVars, sConn, sLeaked, sSubs,
                   sCtx, isRunning, stPc, ingestVars>>

\* the 5 seconds of the running time.Sleep elapse
ScSleepElapse ==
    /\ prog = "scanner" /\ sPc = "sleep" /\ ~slept
    /\ slept' = TRUE
    /\ UNCHANGED <<topVars, envVars, clientVars, storeVars, jupVars, sPc, sConn,
                   sLeaked, sSubs, sCtx, isRunning, reconnectCh, stPc, ingestVars>>

\* time.Sleep returns, scheduleReconnect returns, processLoop loops
ScSleepReturn ==
    /\ prog = "scanner" /\ sPc = "sleep" /\ slept
    /\ slept' = FALSE
    /\ sPc' = "top"
    /\ UNCHANGED <<topVars, envVars, clientVars, storeVars, jupVars, sConn, sLeaked, sSubs,
                   sCtx, isRunning, reconnectCh, stPc, ingestVars>>

\* the owner calls Stop: s.cancel()
ScStopCancel ==
    /\ prog = "scanner" /\ sPc # "idle" /\ stPc = "idle"
    /\ sCtx' = TRUE
    /\ stPc' = "flag"
    /\ UNCHANGED <<topVars, envVars, clientVars, storeVars, jupVars, sPc, sConn,
                   sLeaked, sSubs, isRunning, reconnectCh, slept, ingestVars>>

\* Stop: s.isRunning = false (under s.mutex)
ScStopFlag ==
    /\ prog = "scanner" /\ stPc = "flag" /\ MutexFree
    /\ isRunning' = FALSE
    /\ stPc' = "close"
    /\ UNCHANGED <<topVars, envVars, clientVars, storeVars, jupVars, sPc, sConn,
                   sLeaked, sSubs, sCtx, reconnectCh, slept, ingestVars>>

\* Stop: if s.conn != nil { s.conn.Close() }; Stop returns
ScStopClose ==
    /\ prog = "scanner" /\ stPc = "close"
    /\ sConn' = IF sConn = "nil" THEN "nil" ELSE "closed"
    /\ stPc' = "idle"
    /\ UNCHANGED <<topVars, envVars, clientVars, storeVars, jupVars, sPc, sLeaked, sSubs,
                   sCtx, isRunning, reconnectCh, slept, ingestVars>>

\* ==================================================== the whole programs
\* connection manager and ingestion of websocket.Client
WsStartStep ==
    \/ WsDialOk \/ WsDialFail \/ WsSet \/ WsSubLock \/ WsSubOk \/ WsSubFail

WsIngestStep ==
    \/ WsSelect
    \/ \E p \in Payloads : WsReadMsg(p)
    \/ \E f \in BOOLEAN : WsSaveToken(f)
    \/ \E f \in BOOLEAN : WsSavePrice(f)
    \/ \E f \in BOOLEAN : WsSavePL(f)

WsReconnectStep ==
    \/ WsReadErr \/ WsDisconnect \/ WsTickerFire \/ WsWaitExit \/ WsWaitTick

JTickStep ==
    \/ JTickerFire
    \/ \E f \in BOOLEAN : JSelectTick(f)
    \/ JListEnd \/ JToken
    \/ \E f \in BOOLEAN : JSavePrice(f)
    \/ \E r, w \in BOOLEAN : JUpdatePL(r, w)

PmStep ==
    \/ \E c \in Ctxs : PmLock(c)
    \/ \E c \in Ctxs : PmCheck(c)
    \/ \E c \in Ctxs : PmInsert(c)
    \/ \E c \in Ctxs : PmQualify(c)
    \/ \E c \in Ctxs, f \in BOOLEAN : PmRecord(c, f)

ScannerStep ==
    \/ ScStart \/ ScTop \/ ScDialOk \/ ScDialFail \/ ScSubOk \/ ScSubFail
    \/ ScHmSelect \/ ScReadErr
    \/ \E p \in Payloads : ScReadMsg(p)
    \/ ScSchedule \/ ScSleepElapse \/ ScSleepReturn
    \/ ScStopCancel \/ ScStopFlag \/ ScStopClose

IngestCall == \E c \in Ctxs, p \in Payloads : PmCall(c, p)

Init ==
    /\ prog \in {"client", "monitor", "scanner", "ingest"}
    /\ msgs = 0 /\ faults = 0 /\ panicked = FALSE
    /\ wsPc = "dial" /\ inReconnect = FALSE /\ conn = "nil"
    /\ readLoops = 0 /\ waiters = 0
    /\ isConnected = FALSE /\ leaked = FALSE /\ done = FALSE /\ ctx = FALSE
    /\ subs = 0 /\ cMutex = "free" /\ sSubs = 0
    /\ rcTick = FALSE /\ wsTok = NoTok /\ closeFrame = FALSE
    /\ tokens = << >> /\ prices = [m \in Mints \cup {NoMint} |-> << >>]
    /\ profit_loss = {}
    /\ jPc = "off" /\ jTick = FALSE /\ jDone = FALSE /\ jList = << >>
    /\ jQuote = 0 /\ jErr = "none" /\ ticks = 0
    /\ sPc = "idle" /\ sConn = "nil" /\ sLeaked = FALSE /\ sCtx = FALSE
    /\ isRunning = FALSE /\ reconnectCh = 0 /\ slept = FALSE
    /\ seenTokens = << >> /\ sMutex = 0
    /\ pmPc = [c \in Ctxs |-> "idle"] /\ pmMsg = [c \in Ctxs |-> PMalformed]
    /\ pmRet = [c \in Ctxs |-> "none"]
    /\ metricsStore = << >> /\ qualified = [m \in Mints \cup {NoMint} |-> 0]
    /\ stPc = "idle"

\* the feed side of both programs: prog is "client", "scanner" or "ingest"
InitFeed == Init /\ prog # "monitor"

NextFeed ==
    \/ ~panicked /\ WsStartStep
    \/ ~panicked /\ WsIngestStep
    \/ ~panicked /\ WsReconnectStep
    \/ ~panicked /\ JSelectExit
    \/ ~panicked /\ (\E f \in BOOLEAN : WsClose(f))
    \/ ~panicked /\ JClose
    \/ ~panicked /\ CtxCancel
    \/ PmStep
    \/ ScannerStep
    \/ IngestCall

SpecFeed == InitFeed /\ [][NextFeed]_vars

\* the price monitor of main's program beside its ingestion
InitMonitor == Init /\ prog = "monitor"

NextMonitor ==
    \/ ~panicked /\ WsStartStep
    \/ ~panicked /\ WsIngestStep
    \/ ~panicked /\ JSelectExit
    \/ ~panicked /\ JTickStep
    \/ ~panicked /\ JClose
    \/ ~panicked /\ CtxCancel

SpecMonitor == InitMonitor /\ [][NextMonitor]_vars

\* Scanner.processMessage on one event whose amounts range over Amounts
\* (json decodes any float64, also a negative one)
Amounts == {-4, 0, 3, 12, 40}

MetricInputs ==
    {Payload(TRUE, "m1", cap, sol, tok, 1) : cap \in Amounts, sol \in Amounts,
                                            tok \in Amounts}

InitMetrics ==
    /\ prog = "ingest"
    /\ msgs = 1 /\ faults = 0 /\ panicked = FALSE
    /\ wsPc = "dial" /\ inReconnect = FALSE /\ conn = "nil"
    /\ readLoops = 0 /\ waiters = 0
    /\ isConnected = FALSE /\ leaked = FALSE /\ done = FALSE /\ ctx = FALSE
    /\ subs = 0 /\ cMutex = "free" /\ sSubs = 0
    /\ rcTick = FALSE /\ wsTok = NoTok /\ closeFrame = FALSE
    /\ tokens = << >> /\ prices = [m \in Mints \cup {NoMint} |-> << >>]
    /\ profit_loss = {}
    /\ jPc = "off" /\ jTick = FALSE /\ jDone = FALSE /\ jList = << >>
    /\ jQuote = 0 /\ jErr = "none" /\ ticks = 0
    /\ sPc = "idle" /\ sConn = "nil" /\ sLeaked = FALSE /\ sCtx = FALSE
    /\ isRunning = FALSE /\ reconnectCh = 0 /\ slept = FALSE
    /\ seenTokens = << >> /\ sMutex = 0
    /\ pmPc = [c \in Ctxs |-> IF c = 1 THEN "lock" ELSE "idle"]
    /\ pmRet = [c \in Ctxs |-> "none"]
    /\ \E p \in MetricInputs : pmMsg = [c \in Ctxs |-> IF c = 1 THEN p ELSE PMalformed]
    /\ metricsStore = << >> /\ qualified = [m \in Mints \cup {NoMint} |-> 0]
    /\ stPc = "idle"

NextMetrics == PmStep

SpecMetrics == InitMetrics /\ [][NextMetrics]_vars

\* the price monitor of a run that starts on a database file left by earlier
\* runs (Initialize creates the tables only if they do not exist): the
\* tokens table holds up to three rows, each with the price point and the
\* profit/loss record its ingestion wrote
StoredTokens ==
    {s \in UNION {[1..k -> Mints] : k \in 0..Cardinality(Mints)} :
        \A i, j \in DOMAIN s : s[i] = s[j] => i = j}

InitQueue ==
    /\ prog = "monitor"
    /\ msgs = 0 /\ faults = 0 /\ panicked = FALSE
    /\ wsPc = "select" /\ inReconnect = FALSE /\ conn = "open"
    /\ readLoops = 1 /\ waiters = 0
    /\ isConnected = TRUE /\ leaked = FALSE /\ done = FALSE /\ ctx = FALSE
    /\ subs = 1 /\ cMutex = "free" /\ sSubs = 0
    /\ rcTick = FALSE /\ wsTok = NoTok /\ closeFrame = FALSE
    /\ \E s \in StoredTokens :
          /\ tokens = [i \in DOMAIN s |->
                          [mint |-> s[i], marketCapSol |-> PGood.marketCapSol,
                           initialBuy |-> PGood.initialBuy]]
          /\ prices = [m \in Mints \cup {NoMint} |->
                          IF \E i \in DOMAIN s : s[i] = m
                          THEN <<[mint |-> m, price |-> PGood.initialBuy]>>
                          ELSE << >>]
          /\ profit_loss =
                 {PLRow(s[i], [initial |-> PGood.initialBuy,
                               current |-> PGood.initialBuy,
                               delta |-> 0, pct |-> Rat(0, 1)]) : i \in DOMAIN s}
    /\ jPc = "select" /\ jTick = FALSE /\ jDone = FALSE /\ jList = << >>
    /\ jQuote = 0 /\ jErr = "none" /\ ticks = 0
    /\ sPc = "idle" /\ sConn = "nil" /\ sLeaked = FALSE /\ sCtx = FALSE
    /\ isRunning = FALSE /\ reconnectCh = 0 /\ slept = FALSE
    /\ seenTokens = << >> /\ sMutex = 0
    /\ pmPc = [c \in Ctxs |-> "idle"] /\ pmMsg = [c \in Ctxs |-> PMalformed]
    /\ pmRet = [c \in Ctxs |-> "none"]
    /\ metricsStore = << >> /\ qualified = [m \in Mints \cup {NoMint} |-> 0]
    /\ stPc = "idle"

NextQueue == JTickStep

SpecQueue == InitQueue /\ [][NextQueue]_vars

Next == NextFeed \/ NextMonitor

Spec == Init /\ [][Next]_vars

\* ------------------------------------------------------------- scheduling
\* every goroutine that can take a step takes one; a timer that runs
\* elapses; a select with several ready cases picks each of them sooner or
\* later; connection attempts succeed sooner or later; a call on a closed
\* connection or with a cancelled context returns its error.  Nothing else
\* is assumed about what the peer sends or when the network fails.
WsProgress ==
    \/ WsSet \/ WsSubLock \/ WsSelect \/ WsDisconnect \/ WsWaitExit \/ WsWaitTick
    \/ (ctx /\ WsDialFail)
    \/ \E f \in BOOLEAN : WsSaveToken(f)
    \/ \E f \in BOOLEAN : WsSavePrice(f)
    \/ \E f \in BOOLEAN : WsSavePL(f)

ScProgress ==
    \/ ScTop \/ ScHmSelect \/ ScSchedule \/ ScSleepReturn
    \/ (sConn = "closed" /\ ScReadErr)
    \/ (sConn = "closed" /\ ScSubFail)

Fairness ==
    /\ WF_vars(~panicked /\ WsProgress)
    /\ SF_vars(~panicked /\ WsWaitExit)
    /\ WF_vars(~panicked /\ WsTickerFire)
    /\ SF_vars(~panicked /\ WsDialOk)
    /\ SF_vars(~panicked /\ WsSubOk)
    /\ WF_vars(~panicked /\ JSelectExit)
    /\ WF_vars(PmStep)
    /\ WF_vars(ScProgress)
    /\ WF_vars(ScSleepElapse)
    /\ SF_vars(ScDialOk)
    /\ SF_vars(ScSubOk)
    /\ WF_vars(ScStopFlag \/ ScStopClose)

FairFeed == SpecFeed /\ Fairness

\* ================================================================ claims
WsShutdown == done \/ ctx

WsStreaming == wsPc \in {"select", "read", "saveToken", "savePrice", "savePL"}

ScStreaming == sPc \in {"hmSelect", "read", "proc"}

StoredMints == {tokens[i].mint : i \in DOMAIN tokens}

RecordedAt(m) == {i \in DOMAIN metricsStore : metricsStore[i].mint = m}

\* C1: a payload whose identity was ingested before is dropped without a
\* Store write and without an error: there is one persisted token per
\* identity, and ingestion never stands at a Store write for an identity
\* that is persisted already
C1_DuplicateDropped ==
    /\ \A i, j \in DOMAIN tokens : tokens[i].mint = tokens[j].mint => i = j
    /\ wsPc = "saveToken" => wsTok.p.mint \notin StoredMints
    /\ \A c \in Ctxs : pmPc[c] = "record" => RecordedAt(pmMsg[c].mint) = {}

\* C2: of the contexts that ingest one identity, exactly one makes the
\* qualification decision and at most one Store write follows
C2_OneDecision ==
    \A m \in Mints :
        /\ qualified[m] <= 1
        /\ Cardinality(RecordedAt(m)) <= 1
        /\ (m \in DOMAIN seenTokens /\ \A c \in Ctxs : pmPc[c] = "idle")
               => qualified[m] = 1

\* two contexts ingest m1 at once: one holds the lock at the check while
\* the other is past its insert
C2_Witness ==
    /\ prog = "ingest"
    /\ pmMsg[1].mint = "m1" /\ pmMsg[2].mint = "m1"
    /\ pmPc[1] = "check" /\ pmPc[2] \in {"qualify", "record"}
    /\ "m1" \in DOMAIN seenTokens

\* C3: a token whose marketCapSol is below the configured minimum is never
\* persisted
C3_LowCapNeverPersisted ==
    /\ \A i \in DOMAIN tokens : tokens[i].marketCapSol >= MinMarketCap
    /\ \A i \in DOMAIN metricsStore : metricsStore[i].marketCapSol >= MinMarketCap

\* C4: after a read failure the connection manager streams again, unless
\* shutdown is signalled (or a second Close of the monitor ended the process)
C4_ReconnectsAfterReadFailure ==
    /\ (wsPc = "hd") ~> (WsStreaming \/ WsShutdown \/ panicked)
    /\ (sPc = "sched") ~> (ScStreaming \/ sCtx)

\* streaming again after the read failed and a retry failed at its
\* subscribe (the connection of the failed retry is the one left behind)
C4_Witness ==
    /\ prog = "client" /\ wsPc = "select" /\ leaked /\ ~WsShutdown

\* C5: a shutdown signalled during the reconnect wait ends the wait: the
\* waiter can leave although the delay has not elapsed
C5_ShutdownAbortsWait ==
    /\ (wsPc = "wait" /\ WsShutdown /\ ~rcTick /\ ~panicked) => ENABLED WsWaitExit
    /\ (sPc = "sleep" /\ sCtx /\ ~slept) => ENABLED ScSleepReturn

\* C6: a second close() is a no-op, it does not panic
C6_SecondCloseHarmless == ~panicked

\* C7: after shutdown is signalled every long-lived loop terminates
C7_LoopsTerminate ==
    /\ done ~> (wsPc \in {"dead", "fatal"} \/ panicked)
    /\ jDone ~> (jPc = "dead" \/ panicked)
    /\ (sCtx /\ stPc = "idle") ~> (sPc = "dead")

\* C8: close() leaves the connection closed
C8_CloseClosesConnection ==
    [][/\ (~done /\ done') => conn' # "open"
       /\ (stPc = "close" /\ stPc' = "idle") => sConn' # "open"]_vars

\* C9: after shutdown is signalled no connect attempt is started
C9_NoConnectAfterShutdown ==
    [][/\ (WsShutdown /\ wsPc # "dial") => wsPc' # "dial"
       /\ (sCtx /\ sPc # "dial") => sPc' # "dial"]_vars

\* C10: once shutdown is signalled, by the cancelled context or by the
\* monitor's Close, the running tick goes on to no further token
C10_TickStopsOnShutdown ==
    [][(/\ jPc = "token" /\ jList # << >>
        /\ ctx \/ jDone
        /\ <<jPc, jList, jQuote>>' # <<jPc, jList, jQuote>>) => jPc' = "select"]_vars

\* C11: once shutdown is signalled the polling loop starts no further
\* updatePrices run, also when a tick is pending at that moment
C11_NoTickAfterShutdown ==
    [][(ctx \/ jDone) => ~(jTick /\ ~jTick')]_vars

\* C12: a recompute on a history of at least two points writes the oldest
\* price as initialPrice, the newest as currentPrice, their difference as
\* delta and delta / initialPrice * 100 as percentage
C12_RecomputeFromHistory ==
    [][(/\ jPc = "pl" /\ jPc' = "token" /\ faults' = faults
        /\ Len(prices[Head(jList).mint]) >= 2)
       => LET h == prices[Head(jList).mint]
              rec == pl'[Head(jList).mint]
              oldest == h[1].price
              newest == h[Len(h)].price
          IN /\ rec.initial = oldest
             /\ rec.current = newest
             /\ rec.delta = newest - oldest
             /\ oldest # 0 => rec.pct = Rat((newest - oldest) * 100, oldest)]_vars

\* the history (2 older, 3 newer) of m1 was recomputed to 2, 3, 1 and 50
C12_Witness ==
    /\ Len(prices["m1"]) = 2
    /\ pl["m1"] = [initial |-> 2, current |-> 3, delta |-> 1, pct |-> Rat(50, 1)]

\* C13: a recompute on a history of fewer than two points writes no
\* profit/loss record and leaves the one the token has as it is
C13_ShortHistoryWritesNothing ==
    [][(/\ jPc = "pl" /\ jPc' = "token"
        /\ Len(prices[Head(jList).mint]) < 2) => pl' = pl]_vars

\* the only point of m1 is a quote of the monitor; its recompute is over and
\* m1 has no profit/loss record
C13_Witness ==
    /\ prices["m1"] = <<[mint |-> "m1", price |-> 3]>>
    /\ jPc \notin {"pl", "save"}
    /\ pl["m1"] = NoPL

\* C14: a recompute never divides by zero: a record whose initialPrice is 0
\* has the percentage 0, not NaN and not an infinity
C14_ZeroInitialGivesZeroPct ==
    \A m \in DOMAIN pl :
        (pl[m] # NoPL /\ pl[m].initial = 0) => pl[m].pct = Rat(0, 1)

\* the metrics computed for the event that context c ingests
MetricsOf(c) == seenTokens[pmMsg[c].mint]

Computed(c) == pmPc[c] \in {"qualify", "record"}

\* C15: an event with vTokensInBondingCurve = 0 gets the TokenPrice 0, every
\* other event the TokenPrice vSolInBondingCurve / vTokensInBondingCurve
C15_TokenPrice ==
    \A c \in Ctxs : Computed(c) =>
        MetricsOf(c).TokenPrice =
            IF pmMsg[c].vTokens = 0 THEN Rat(0, 1)
            ELSE Rat(pmMsg[c].vSol, pmMsg[c].vTokens)

\* C15 as amended: an event with vTokensInBondingCurve <= 0 gets the
\* TokenPrice 0, one with vTokensInBondingCurve > 0 the quotient
C15_TokenPriceAmended ==
    \A c \in Ctxs : Computed(c) =>
        MetricsOf(c).TokenPrice =
            IF pmMsg[c].vTokens <= 0 THEN Rat(0, 1)
            ELSE Rat(pmMsg[c].vSol, pmMsg[c].vTokens)

\* the metrics of an event with 3 SOL and no tokens in the curve are computed
C15_Witness ==
    /\ Computed(1) /\ pmMsg[1].vTokens = 0 /\ pmMsg[1].vSol = 3
    /\ MetricsOf(1).TokenPrice = Rat(0, 1)

\* C16: an event with marketCapSol = 0 gets the LiquidityRatio 0, every
\* other event the LiquidityRatio vSolInBondingCurve / marketCapSol
C16_LiquidityRatio ==
    \A c \in Ctxs : Computed(c) =>
        MetricsOf(c).LiquidityRatio =
            IF pmMsg[c].marketCapSol = 0 THEN Rat(0, 1)
            ELSE Rat(pmMsg[c].vSol, pmMsg[c].marketCapSol)

\* C16 as amended: an event with marketCapSol <= 0 gets the LiquidityRatio
\* 0, one with marketCapSol > 0 the quotient
C16_LiquidityRatioAmended ==
    \A c \in Ctxs : Computed(c) =>
        MetricsOf(c).LiquidityRatio =
            IF pmMsg[c].marketCapSol <= 0 THEN Rat(0, 1)
            ELSE Rat(pmMsg[c].vSol, pmMsg[c].marketCapSol)

\* the metrics of an event with 3 SOL in the curve and the market cap 0 are
\* computed
C16_Witness ==
    /\ Computed(1) /\ pmMsg[1].marketCapSol = 0 /\ pmMsg[1].vSol = 3
    /\ MetricsOf(1).LiquidityRatio = Rat(0, 1)

\* C17: a message whose processing fails (undecodable payload, failed Store
\* write) does not end the read loop, which goes back to the top of its
\* loop; an undecodable payload causes no Store write
C17_ProcessingErrorKeepsLoop ==
    [][/\ (wsPc = "read" /\ msgs' = msgs + 1 /\ wsPc' # "saveToken")
              => (wsPc' = "select" /\ storeVars' = storeVars)
       /\ (wsPc \in {"saveToken", "savePrice", "savePL"} /\ faults' = faults + 1)
              => wsPc' = "select"
       /\ (wsPc = "saveToken" /\ wsPc' # "saveToken" /\ tokens' = tokens)
              => wsPc' = "select"
       /\ (sPc = "read" /\ msgs' = msgs + 1 /\ sPc' # "proc")
              => (sPc' = "hmSelect" /\ metricsStore' = metricsStore)
       /\ (sPc = "proc" /\ faults' = faults + 1) => sPc' = "hmSelect"]_vars

\* a Store write of the client failed while a message was processed, and
\* its read loop is reading again
C17_Witness ==
    /\ prog = "client" /\ faults = 1 /\ msgs >= 1
    /\ wsPc = "read" /\ ~WsShutdown

\* C18: a failed quote skips its token only: no price point is written for
\* it and the tick goes on with every token after it
C18_QuoteFailureSkipsOne ==
    [][(/\ jPc = "token" /\ faults' = faults + 1
        /\ <<jPc, jList, jQuote>>' # <<jPc, jList, jQuote>>)
       => (/\ jPc' = "token" /\ jList' = Tail(jList)
           /\ storeVars' = storeVars)]_vars

\* in the one tick so far the newer token m2 was skipped by the one failure
\* of the run and the token after it, m1, got its quote written
C18_Witness ==
    /\ ticks = 1 /\ faults = 1
    /\ Len(tokens) = 2 /\ tokens[1].mint = "m1" /\ tokens[2].mint = "m2"
    /\ pl["m2"] # NoPL /\ Len(prices["m2"]) = 1
    /\ Len(prices["m1"]) = 2 /\ pl["m1"] # NoPL /\ pl["m1"].current # 2

C20_InitialPriceFixed ==
    [][\A m \in Mints :
          /\ pl'[m] # NoPL => (/\ prices'[m] # << >>
                               /\ pl'[m].initial = prices'[m][1].price)
          /\ (pl[m] # NoPL /\ pl'[m] # NoPL) => pl'[m].initial = pl[m].initial]_vars

\* C21: the Store holds at most one profit/loss record per token identity: a
\* recomputation replaces the record the token has
C21_OnePLPerToken ==
    \A r1, r2 \in profit_loss : r1.mint = r2.mint => r1 = r2

\* the record ingestion wrote for m1 (2, 2) was replaced by the one the
\* monitor recomputed from the quote 3
C21_Witness ==
    /\ Len(prices["m1"]) = 2
    /\ PLRow("m1", [initial |-> 2, current |-> 3, delta |-> 1,
                    pct |-> Rat(50, 1)]) \in profit_loss
    /\ Cardinality({r \in profit_loss : r.mint = "m1"}) = 1

\* C22: ingestion writes a first-sight token in this order: the token record,
\* then a price point with the event's initialBuy stamped with the
\* observation time, then a profit/loss record with initialPrice =
\* currentPrice = initialBuy and zero delta and percentage
C22_IngestWriteOrder ==
    [][/\ (wsPc = "saveToken" /\ wsPc' = "savePrice")
              => /\ wsTok.p.mint \notin StoredMints
                 /\ tokens'[Len(tokens')].mint = wsTok.p.mint
                 /\ prices' = prices /\ profit_loss' = profit_loss
       /\ (wsPc = "savePrice" /\ wsPc' = "savePL")
              => /\ wsTok.p.mint \in StoredMints
                 /\ Len(prices'[wsTok.p.mint]) = Len(prices[wsTok.p.mint]) + 1
                 /\ prices'[wsTok.p.mint][wsTok.createdAt + 1].price
                        = wsTok.p.initialBuy
                 /\ tokens' = tokens /\ profit_loss' = profit_loss
       /\ (wsPc = "savePL" /\ wsPc' # "savePL" /\ faults' = faults)
              => /\ \E i \in DOMAIN prices[wsTok.p.mint] :
                        prices[wsTok.p.mint][i].price = wsTok.p.initialBuy
                 /\ pl'[wsTok.p.mint] =
                        [initial |-> wsTok.p.initialBuy,
                         current |-> wsTok.p.initialBuy,
                         delta |-> 0, pct |-> Rat(0, 1)]
                 /\ tokens' = tokens /\ prices' = prices
       /\ \A c \in Ctxs :
             (pmPc[c] = "record" /\ pmPc'[c] = "idle" /\ faults' = faults)
              => /\ Len(metricsStore') = Len(metricsStore) + 1
                 /\ metricsStore'[Len(metricsStore')].mint = pmMsg[c].mint
                 /\ metricsStore'[Len(metricsStore')].price
                        = Rat(pmMsg[c].initialBuy, 1)]_vars

\* C23: when one of ingestion's three Store writes fails, the error goes back
\* to the caller, the writes made before it stay in the Store and the writes
\* after it are not attempted
C23_FailedWriteNoRollback ==
    [][(/\ wsPc \in {"saveToken", "savePrice", "savePL"}
        /\ wsPc' # wsPc /\ faults' = faults + 1)
       => (/\ wsPc' = "select" /\ wsTok' = NoTok
           /\ storeVars' = storeVars)]_vars

\* the token record of m1 is in the Store, its price write failed, and
\* processMessage has returned without a price point and a profit/loss record
C23_Witness ==
    /\ prog = "client" /\ faults = 1 /\ wsPc = "select" /\ wsTok = NoTok
    /\ "m1" \in StoredMints /\ prices["m1"] = << >> /\ pl["m1"] = NoPL

\* C24: when the transport cannot be established, connect returns an error
\* and goes no further: the connection handle and the connected flag are as
\* before, no subscribe message is written and no read loop is started
C24_DialFailureChangesNothing ==
    [][/\ (wsPc = "dial" /\ wsPc' \notin {"dial", "set"})
              => /\ wsPc' \in {"wait", "fatal"}
                 /\ <<conn, isConnected, subs>>' = <<conn, isConnected, subs>>
       /\ (sPc = "dial" /\ sPc' \notin {"dial", "sub"})
              => /\ sPc' = "sched"
                 /\ <<sConn, sSubs>>' = <<sConn, sSubs>>]_vars

\* main's Connect failed at the dial: the client never had a connection
C24_Witness ==
    /\ prog = "client" /\ wsPc = "fatal"
    /\ conn = "nil" /\ ~isConnected /\ subs = 0

\* C25: when the subscribe message cannot be sent, the transport just opened
\* is closed and connect fails: afterwards the manager holds no open
\* connection, is not marked connected and has started no read loop
C25_SubscribeFailureTearsDown ==
    [][/\ (wsPc = "subWrite" /\ wsPc' \notin {"subWrite", "select"})
              => /\ wsPc' \in {"wait", "fatal"}
                 /\ conn' # "open" /\ ~isConnected'
       /\ (sPc = "sub" /\ sPc' \notin {"sub", "hmSelect"})
              => /\ sPc' = "sched"
                 /\ sConn' # "open"]_vars

\* the state of the connection manager of websocket.Client
WsPhase ==
    CASE wsPc \in {"dial", "set"} -> "Connecting"
      [] wsPc \in {"sub", "subWrite"} -> "Subscribing"
      [] WsStreaming -> "Streaming"
      [] OTHER -> "Disconnected"

\* the state of the connection manager of scanner.Scanner
ScPhase ==
    CASE sPc = "dial" -> "Connecting"
      [] sPc = "sub" -> "Subscribing"
      [] ScStreaming -> "Streaming"
      [] OTHER -> "Disconnected"

\* C26: the connection manager moves only along Disconnected -> Connecting
\* -> Subscribing -> Streaming -> Disconnected (a failure leads back to
\* Disconnected); it streams only on a connection on which the subscribe
\* message was written, and one subscribe message is written per connection
C26_ConnectionStateMachine ==
    [][LET PhaseMove(a, b) ==
               \/ a = b
               \/ <<a, b>> \in {<<"Disconnected", "Connecting">>,
                                <<"Connecting", "Subscribing">>,
                                <<"Subscribing", "Streaming">>,
                                <<"Streaming", "Disconnected">>,
                                <<"Connecting", "Disconnected">>,
                                <<"Subscribing", "Disconnected">>}
       IN /\ PhaseMove(WsPhase, WsPhase')
          /\ PhaseMove(ScPhase, ScPhase')
          /\ WsStreaming' => (conn' # "nil" /\ subs' = 1)
          /\ ScStreaming' => (sConn' # "nil" /\ sSubs' = 1)
          /\ subs' <= 1 /\ sSubs' <= 1]_vars

\* the scanner reads on its second connection, on which one subscribe
\* message was written
C26_Witness ==
    /\ prog = "scanner" /\ sPc = "read" /\ reconnectCh = 1
    /\ sConn = "open" /\ sSubs = 1

\* C27: every connection attempt that follows a failure comes after one full
\* reconnect delay: the scanner sleeps its 5 seconds after each failure and
\* the client retries on a tick of its reconnect ticker only
C27_DelayBeforeEveryRetry ==
    [][/\ (sPc = "sched" /\ sPc' # "sched") => sPc' = "sleep"
       /\ (sPc = "sleep" /\ sPc' # "sleep") => slept
       /\ (wsPc = "wait" /\ wsPc' = "dial") => rcTick]_vars

\* the client's goroutine stands at a network or Store call: DialContext,
\* WriteMessage, ReadMessage, SaveNewToken, SaveTokenPrice, UpdateProfitLoss
WsInIO ==
    wsPc \in {"dial", "subWrite", "read", "saveToken", "savePrice", "savePL"}

\* C28: no context holds the client mutex while it performs network I/O
C28_NoIOUnderLock == cMutex = "connect" => ~WsInIO

\* C29: the shared fields are read and written inside the critical section
\* only: the seen set is touched by the holder of the mutex, and there is no
\* state in which one context can write the connection handle while another
\* can read it, neither of them holding the lock
C29_SharedFieldsUnderLock ==
    /\ \A c \in Ctxs : pmPc[c] \in {"check", "insert"} => sMutex = c
    /\ ~(ENABLED ScDialOk /\ ENABLED ScStopClose)

\* C30: the monitor's ticks do not overlap: a tick is taken only when no
\* updatePrices run is in progress, and each price point the monitor writes
\* becomes the newest point of its token, one point at a time
C30_TicksDoNotOverlap ==
    [][/\ (jTick /\ ~jTick') => (jPc = "select" /\ jList = << >>)
       /\ (jPc = "save" /\ jPc' = "pl")
              => LET m == Head(jList).mint
                 IN /\ prices'[m] = Append(prices[m], [mint |-> m, price |-> jQuote])
                    /\ \A k \in DOMAIN prices \ {m} : prices'[k] = prices[k]]_vars

\* m1 has the point of its ingestion, then the quote of the first tick, then
\* the quote of the second tick
C30_Witness ==
    /\ ticks = 2 /\ jPc = "select"
    /\ prices["m1"] = <<[mint |-> "m1", price |-> 2], [mint |-> "m1", price |-> 1],
                        [mint |-> "m1", price |-> 3]>>

\* C31: a tick asks quotes for at most QueueSize tokens: the run starts with
\* the QueueSize most recently created tokens of the Store, newest first (all
\* of them when the Store holds fewer), and asks a quote for these only
C31_NewestNTokens ==
    [][/\ (jPc = "select" /\ jPc' = "token")
              => /\ Len(jList') = IF Len(tokens) < QueueSize THEN Len(tokens)
                                  ELSE QueueSize
                 /\ \A i \in DOMAIN jList' : jList'[i] = tokens[Len(tokens) + 1 - i]
       /\ (jPc = "token" /\ jPc' = "token")
              => \E k \in 0..Len(jList) : jList' = SubSeq(jList, k + 1, Len(jList))
       /\ (jPc = "token" /\ jPc' = "save") => jList' = jList]_vars

\* the Store holds three tokens and the running tick visits the two newest
C31_Witness ==
    /\ Len(tokens) = 3 /\ jPc = "save" /\ Len(jList) = 2
    /\ jList[1] = tokens[3] /\ jList[2] = tokens[2]

\* C32: the filter accepts a first-sight token exactly when marketCapSol >=
\* the minimum market cap, vSolInBondingCurve >= the minimum liquidity and
\* vSolInBondingCurve / marketCapSol >= 0.10; a rejected token is dropped
\* without a Store write and processMessage returns nil
C32_QualificationFilter ==
    [][\A c \in Ctxs :
          (pmPc[c] = "qualify" /\ pmPc'[c] # "qualify")
          => LET p == pmMsg[c]
                 accepted == /\ p.marketCapSol >= MinMarketCap
                             /\ p.vSol >= MinLiquidity
                             /\ p.vSol * RatioDen >= RatioNum * p.marketCapSol
             IN /\ (pmPc'[c] = "record") <=> accepted
                /\ ~accepted => /\ pmPc'[c] = "idle" /\ pmRet'[c] = "nil"
                                /\ metricsStore' = metricsStore
                                /\ faults' = faults]_vars

\* an event with market cap 40 and 3 SOL in the curve passed both minimums
\* and was filtered out for its ratio 3/40: nil was returned, nothing written
C32_Witness ==
    /\ pmPc[1] = "idle" /\ pmRet[1] = "nil"
    /\ "m1" \in DOMAIN seenTokens
    /\ seenTokens["m1"].LiquidityRatio = Rat(3, 40)
    /\ metricsStore = << >> /\ faults = 0

\* C33: the price point of a successful quote is in the Store before the
\* recompute of its token is invoked, and the recompute takes it as the
\* newest point; when the point cannot be saved the recompute of that token
\* is left out and the tick goes on with the next token
C33_PriceSavedBeforeRecompute ==
    [][/\ (jPc # "pl" /\ jPc' = "pl")
              => /\ jPc = "save"
                 /\ Len(prices'[Head(jList).mint]) = Len(prices[Head(jList).mint]) + 1
       /\ jPc' = "pl"
              => LET h == prices'[Head(jList').mint]
                 IN h # << >> /\ h[Len(h)].price = jQuote'
       /\ (jPc = "pl" /\ jErr' = "nil") => pl'[Head(jList).mint].current = jQuote
       /\ (jPc = "save" /\ jPc' # "save" /\ faults' = faults + 1)
              => /\ jPc' = "token" /\ jList' = Tail(jList)
                 /\ storeVars' = storeVars]_vars

\* the quote 3 of m1 is saved as its newest point and the recompute is next
C33_Witness ==
    /\ jPc = "pl" /\ Head(jList).mint = "m1" /\ jQuote = 3
    /\ prices["m1"] = <<[mint |-> "m1", price |-> 2], [mint |-> "m1", price |-> 3]>>

\* C34: a recompute on a history of fewer than two points is a skip: the
\* caller of updateProfitLoss gets no error from it
C34_ShortHistoryNoError ==
    [][(/\ jPc = "pl" /\ jPc' = "token" /\ faults' = faults
        /\ Head(jList).mint \in Mints
        /\ Len(prices[Head(jList).mint]) < 2) => jErr' = "nil"]_vars

\* neither the ingestion of m nor a recompute of m is in progress
Quiescent(m) ==
    /\ wsTok = NoTok \/ wsTok.p.mint # m
    /\ ~(jPc \in {"save", "pl"} /\ Head(jList).mint = m)

\* C35: whenever no ingestion and no recompute of a token is in progress and
\* its history has at least two points, its profit/loss record shows the
\* price of the newest point as currentPrice, however ingestion and the
\* monitor's tick interleaved (runs without a failed call)
C35_CurrentPriceIsNewest ==
    \A m \in Mints :
        (faults = 0 /\ Quiescent(m) /\ Len(prices[m]) >= 2)
        => (pl[m] # NoPL /\ pl[m].current = prices[m][Len(prices[m])].price)

\* C36: at most one goroutine is in the read loop at any time, whatever the
\* sequence of disconnects and reconnects: a goroutine that waits in
\* handleDisconnect (or runs its Connect) has left the read loop, so the
\* old loop has stopped before Connect starts the new one, and there is at
\* most one such waiter; whoever reads is that one loop
C36_SingleReader ==
    /\ readLoops + waiters <= 1
    /\ WsStreaming => (readLoops = 1 /\ waiters = 0)
    /\ inReconnect => (waiters = 1 /\ readLoops = 0)

\* C36 witness: the read loop started by a reconnect is reading (the
\* transport of an earlier reconnect attempt was replaced)
C36_Witness ==
    /\ prog = "client" /\ wsPc = "read" /\ leaked
    /\ readLoops = 1 /\ waiters = 0 /\ conn = "open"

\* C37: an identity enters s.seenTokens before the qualification filter and
\* the Store write run for it and is never removed; a later ingestion that
\* finds its identity there returns without a qualification decision and
\* without a Store write, whatever became of the first one
C37_SeenOnceForever ==
    [][/\ \A m \in DOMAIN seenTokens : m \in DOMAIN seenTokens'
       /\ \A c \in Ctxs :
            /\ pmPc'[c] \in {"qualify", "record"}
                   => pmMsg'[c].mint \in DOMAIN seenTokens'
            /\ (pmPc[c] = "check" /\ pmPc'[c] # "check"
                    /\ pmMsg[c].mint \in DOMAIN seenTokens)
                   => /\ pmPc'[c] = "idle" /\ pmRet'[c] = "nil"
                      /\ qualified' = qualified
                      /\ metricsStore' = metricsStore
                      /\ seenTokens' = seenTokens]_vars

\* C37 witness: the Store write for m1 failed, and a second message for m1
\* was dropped at the lookup: one decision, nothing stored
C37_Witness ==
    /\ prog = "scanner" /\ msgs = 2 /\ faults = 1
    /\ pmPc[1] = "idle" /\ pmRet[1] = "nil"
    /\ DOMAIN seenTokens = {"m1"}
    /\ qualified["m1"] = 1 /\ metricsStore = << >>

\* C38: once Close has returned (c.done is closed) the client gets no new
\* open connection marked connected and no new read loop: a reconnect
\* that was in flight leaves neither behind
C38_NothingNewAfterClose ==
    [][done => /\ (conn' = "open" /\ isConnected') => (conn = "open" /\ isConnected)
               /\ readLoops' <= readLoops]_vars

\* C39: no persisted record has the empty identity: a decodable message
\* without a mint field leaves no token, no PricePoint, no profit/loss
\* record and no metrics record behind
C39_NoRecordWithoutMint ==
    /\ \A i \in DOMAIN tokens : tokens[i].mint # NoMint
    /\ prices[NoMint] = << >>
    /\ \A r \in profit_loss : r.mint # NoMint
    /\ \A i \in DOMAIN metricsStore : metricsStore[i].mint # NoMint

====
